---- MODULE Spec2Model ----
(***************************************************************************)
(* Model of the matching engine of bernard:                                *)
(*   - the trigger variants of engine/triggers.py (Anything, Text, Choice) *)
(*     and the ranking cycle that drives them,                             *)
(*   - Facebook.accept / Facebook.send / Facebook._send_text of            *)
(*     platforms/facebook/platform.py,                                     *)
(*   - Platform.on_message / Platform._notify of engine/platform.py.       *)
(* Each of the three parts has its own specification (SpecTriggers,        *)
(* SpecFacebook, SpecNotify); the variables of the other parts stay at     *)
(* their initial value.                                                    *)
(***************************************************************************)
EXTENDS Integers, Sequences, FiniteSets, TLC

VARIABLES
    request,      \* the decoded request: [layers, trans_reg]
    triggers,     \* the trigger instances built for the request, in registration order
    dpc,          \* the ranking cycle's position
    winner,       \* index of the selected trigger, 0 when none
    patched,      \* patched[i]: how many times patch() ran on instance i
    stack,        \* the Stack handed to Facebook: [layers, annotation]
    fpc,          \* position of Facebook.send / _send_text
    result,       \* the last call on the platform and what it returned or raised
    handler,      \* name of the _send_<name> handler the stack was handed to
    parts,        \* _send_text: the parts to send
    pidx,         \* _send_text: index of the next part
    posting,      \* messages whose POST (Facebook._send) is in flight
    sent,         \* messages whose POST completed, in order
    listeners,        \* Platform._listeners
    fsm_creates_task, \* Platform.fsm_creates_task
    register,         \* Platform._register
    npc,              \* position of Platform._notify
    nidx,             \* _notify: index of the callback the loop is at
    calls             \* _notify: the calls made and the awaits completed, in order

trigVars == <<request, triggers, dpc, winner, patched>>

fbVars == <<stack, fpc, result, handler, parts, pidx, posting, sent>>

notifyVars == <<listeners, fsm_creates_task, register, npc, nidx, calls>>

vars == <<trigVars, fbVars, notifyVars>>

(***************************************************************************)
(* Bounds of the model.                                                    *)
(***************************************************************************)
MaxTriggers == 2

MaxLayers == 3

MaxListeners == 2

(***************************************************************************)
(* Generic helpers.                                                        *)
(***************************************************************************)
Range(s) == {s[i] : i \in DOMAIN s}

Min(a, b) == IF a <= b THEN a ELSE b

RECURSIVE Gcd(_, _)
Gcd(a, b) == IF b = 0 THEN a ELSE Gcd(b, a % b)

RECURSIVE SumOver(_, _)
SumOver(S, f) ==
    IF S = {} THEN 0
    ELSE LET x == CHOOSE y \in S : TRUE
         IN f[x] + SumOver(S \ {x}, f)

\* Python's None, for the optional values that are strings.
None == "None"

(***************************************************************************)
(* Scores.  A rank is Optional[float]: NoOpinion is the empty sequence,    *)
(* a score s is <<s>>.  A score is an exact fraction [n, d] in lowest      *)
(* terms, so that equal scores are equal values.                           *)
(***************************************************************************)
NoOpinion == <<>>

Frac(n, d) ==
    LET g == Gcd(n, d)
    IN  IF n = 0 THEN [n |-> 0, d |-> 1] ELSE [n |-> n \div g, d |-> d \div g]

Zero == [n |-> 0, d |-> 1]

One == [n |-> 1, d |-> 1]

Gt(a, b) == a.n * b.d > b.n * a.d

(***************************************************************************)
(* Trigram index, similarity scorer and candidate matcher (bernard.trigram *)
(* is not among the sources; these follow sections 3, 4.1 and 4.2 of the   *)
(* specification).  A string is a sequence of characters.                  *)
(***************************************************************************)
Lower(c) == IF c = "Y" THEN "y" ELSE IF c = "N" THEN "n" ELSE c

Normalize(s) == [i \in DOMAIN s |-> Lower(s[i])]

\* Boundary padding: two blanks before, one after; the empty string still
\* yields one shingle.
shingles(s) ==
    LET p == <<" ", " ">> \o Normalize(s) \o <<" ">>
    IN  [i \in 1..(Len(p) - 2) |-> SubSeq(p, i, i + 2)]

Count(a, x) == Cardinality({i \in DOMAIN a : a[i] = x})

\* 2 * |a /\ b| / (|a| + |b|), the shingles counted as a multiset.
similarity(a, b) ==
    IF Len(a) = 0 \/ Len(b) = 0 THEN Zero
    ELSE LET common == SumOver(Range(a),
                         [x \in Range(a) |-> Min(Count(a, x), Count(b, x))])
         IN  Frac(2 * common, Len(a) + Len(b))

RECURSIVE MatchFrom(_, _, _, _)
MatchFrom(q, candidates, i, best) ==
    IF i > Len(candidates) THEN best
    ELSE LET s == similarity(q, shingles(candidates[i]))
         IN  MatchFrom(q, candidates, i + 1, IF Gt(s, best) THEN s ELSE best)

\* Matcher([Trigram(x) for x in candidates]) % Trigram(query)
best_match(query, candidates) == MatchFrom(shingles(query), candidates, 1, Zero)

(***************************************************************************)
(* The data the requests are drawn from.                                   *)
(***************************************************************************)
sYes == <<"Y", "e", "s">>
sYess == <<"y", "e", "s", "s">>
sYeah == <<"y", "e", "a", "h">>
sNo == <<"N", "o">>
sNope == <<"n", "o", "p", "e">>
sHi == <<"h", "i">>

\* intents.<KEY>.strings(request): the locale-resolved strings of an intent.
IntentStrings(key) ==
    CASE key = "YES" -> <<sYes, sYeah>>
      [] key = "NO" -> <<sNo, sNope>>
      [] OTHER -> <<>>

RawText(t) == [tag |-> "RawText", text |-> t, slug |-> None]

QuickReply(s) == [tag |-> "QuickReply", text |-> <<>>, slug |-> s]

\* FacebookMessage.get_layers: the text layer first, then the quick reply.
TextLayers == {<<>>} \cup {<<RawText(t)>> : t \in {sYess, sNo, sHi}}

QrLayers == {<<>>} \cup {<<QuickReply(s)>> : s \in {"yes", "no", "maybe"}}

LayerLists == {t \o q : t \in TextLayers, q \in QrLayers}

\* A choice's metadata, params = {'intent': ..., 'text': ...}; the text is
\* <<>> for None and <<s>> for the string s.
Opt(intent, text) == [intent |-> intent, text |-> text]

NoText == <<>>

\* The 'choices' entry of the transition register: an insertion-ordered
\* mapping, written as a sequence of <<slug, params>> with distinct slugs.
ChoiceMaps ==
    { <<>>,
      << <<"yes", Opt(None, <<sYes>>)>>, <<"no", Opt(None, <<sNo>>)>> >>,
      << <<"yes", Opt("YES", NoText)>>, <<"yep", Opt(None, <<sYes>>)>>,
         <<"no", Opt("NO", <<sNo>>)>> >> }

\* The transition register: the 'choices' entry may be missing.
Registers ==
    {[present |-> FALSE, choices |-> <<>>]}
        \cup {[present |-> TRUE, choices |-> c] : c \in ChoiceMaps}

Requests == [layers : LayerLists, trans_reg : Registers]

(***************************************************************************)
(* Request accessors (bernard.engine.request is not among the sources).    *)
(***************************************************************************)
has_layer(req, tag) == \E i \in DOMAIN req.layers : req.layers[i].tag = tag

get_layer(req, tag) ==
    req.layers[CHOOSE i \in DOMAIN req.layers :
                  /\ req.layers[i].tag = tag
                  /\ \A j \in 1..(i - 1) : req.layers[j].tag # tag]

\* request.get_trans_reg('choices'): the mapping, empty standing also for
\* the missing entry (None); both are falsy.
get_trans_reg_choices(req) ==
    IF req.trans_reg.present THEN req.trans_reg.choices ELSE <<>>

HasKey(choices, slug) == \E i \in DOMAIN choices : choices[i][1] = slug

Lookup(choices, slug) ==
    choices[CHOOSE i \in DOMAIN choices : choices[i][1] = slug][2]

(***************************************************************************)
(* Trigger instances.  A factory is what BaseTrigger.builder returns; an   *)
(* instance adds the state of the object: slug and chosen (Choice only),   *)
(* and, for the ranking cycle, whether rank() ran and what it returned.    *)
(***************************************************************************)
Factory(kind, intent, when) == [kind |-> kind, intent |-> intent, when |-> when]

Factories ==
    { Factory("Anything", None, None), Factory("Text", "YES", None),
      Factory("Choice", None, None), Factory("Choice", None, "yes"),
      Factory("Choice", None, "no") }

\* BaseTrigger.builder's factory(request): cls(request, *args, **kwargs);
\* Choice.__init__ sets slug and chosen to None.
Build(f) ==
    [kind |-> f.kind, intent |-> f.intent, when |-> f.when,
     slug |-> None, chosen |-> <<>>, ranked |-> FALSE, score |-> NoOpinion]

\* What a call of rank() produces: the return value and the attributes the
\* instance holds afterwards.
Outcome(ret, slug, chosen) == [ret |-> ret, slug |-> slug, chosen |-> chosen]

\* Mutant of AnythingRank: the catch-all returns 0.0.
AnythingRankZero(t, req) == Outcome(<<Zero>>, t.slug, t.chosen)

\* Anything.rank
AnythingRank(t, req) == Outcome(<<One>>, t.slug, t.chosen)

\* Text.rank
TextRank(t, req) ==
    IF ~has_layer(req, "RawText") THEN Outcome(NoOpinion, t.slug, t.chosen)
    ELSE LET tl == get_layer(req, "RawText")
         IN  Outcome(<<best_match(tl.text, IntentStrings(t.intent))>>,
                     t.slug, t.chosen)

\* Choice._rank_qr
rank_qr(t, req, choices) ==
    LET qr == get_layer(req, "QuickReply")
    IN  IF HasKey(choices, qr.slug)
        THEN Outcome(IF t.when = None \/ t.when = qr.slug
                     THEN <<One>> ELSE NoOpinion,
                     qr.slug, <<Lookup(choices, qr.slug)>>)
        ELSE Outcome(NoOpinion, t.slug, t.chosen)   \* except KeyError: pass

\* The candidate strings of one choice.
Strings(params) ==
    (IF params.intent # None THEN IntentStrings(params.intent) ELSE <<>>)
        \o (IF params.text # NoText /\ params.text[1] # <<>>
            THEN params.text ELSE <<>>)

\* The loop of Choice._rank_text from choice i on; acc = [best, slug, chosen].
RECURSIVE TextLoop(_, _, _, _)
TextLoop(text, choices, i, acc) ==
    IF i > Len(choices) THEN acc
    ELSE LET score == best_match(text, Strings(choices[i][2]))
         IN  TextLoop(text, choices, i + 1,
                      IF Gt(score, acc.best)
                      THEN [best |-> score, slug |-> choices[i][1],
                            chosen |-> <<choices[i][2]>>]
                      ELSE acc)

\* Mutant of rank_text: `score >= best` keeps the last of the best choices.
RECURSIVE TextLoopLast(_, _, _, _)
TextLoopLast(text, choices, i, acc) ==
    IF i > Len(choices) THEN acc
    ELSE LET score == best_match(text, Strings(choices[i][2]))
         IN  TextLoopLast(text, choices, i + 1,
                          IF ~Gt(acc.best, score)
                          THEN [best |-> score, slug |-> choices[i][1],
                                chosen |-> <<choices[i][2]>>]
                          ELSE acc)

rank_text_last(t, req, choices) ==
    LET tl == get_layer(req, "RawText")
        acc == TextLoopLast(tl.text, choices, 1,
                            [best |-> Zero, slug |-> t.slug, chosen |-> t.chosen])
    IN  Outcome(IF t.when = None \/ acc.slug = t.when
                THEN <<acc.best>> ELSE NoOpinion,
                acc.slug, acc.chosen)

\* Choice._rank_text
rank_text(t, req, choices) ==
    LET tl == get_layer(req, "RawText")
        acc == TextLoop(tl.text, choices, 1,
                        [best |-> Zero, slug |-> t.slug, chosen |-> t.chosen])
    IN  Outcome(IF t.when = None \/ acc.slug = t.when
                THEN <<acc.best>> ELSE NoOpinion,
                acc.slug, acc.chosen)

\* Mutant of ChoiceRank: the raw text is looked at before the quick reply.
ChoiceRankTextFirst(t, req) ==
    LET choices == get_trans_reg_choices(req)
    IN  IF choices = <<>> THEN Outcome(NoOpinion, t.slug, t.chosen)
        ELSE IF has_layer(req, "RawText") THEN rank_text(t, req, choices)
        ELSE IF has_layer(req, "QuickReply") THEN rank_qr(t, req, choices)
        ELSE Outcome(NoOpinion, t.slug, t.chosen)

\* Mutant of ChoiceRank: the `if not choices` guard is missing.
ChoiceRankNoGuard(t, req) ==
    LET choices == get_trans_reg_choices(req)
    IN  IF has_layer(req, "QuickReply") THEN rank_qr(t, req, choices)
        ELSE IF has_layer(req, "RawText") THEN rank_text(t, req, choices)
        ELSE Outcome(NoOpinion, t.slug, t.chosen)

\* Choice.rank
ChoiceRank(t, req) ==
    LET choices == get_trans_reg_choices(req)
    IN  IF choices = <<>> THEN Outcome(NoOpinion, t.slug, t.chosen)
        ELSE IF has_layer(req, "QuickReply") THEN rank_qr(t, req, choices)
        ELSE IF has_layer(req, "RawText") THEN rank_text(t, req, choices)
        ELSE Outcome(NoOpinion, t.slug, t.chosen)

\* rank() of an instance, by variant.
rank(t, req) ==
    CASE t.kind = "Anything" -> AnythingRank(t, req)
      [] t.kind = "Text" -> TextRank(t, req)
      [] t.kind = "Choice" -> ChoiceRank(t, req)

\* Mutant of Stage: slug and chosen are class attributes, shared by every
\* Choice instance.
StageShared(trigs, i, out) ==
    [j \in DOMAIN trigs |->
        IF j = i
        THEN [trigs[j] EXCEPT !.slug = out.slug, !.chosen = out.chosen,
                              !.score = out.ret, !.ranked = TRUE]
        ELSE IF trigs[j].kind = "Choice" /\ trigs[i].kind = "Choice"
        THEN [trigs[j] EXCEPT !.slug = out.slug, !.chosen = out.chosen]
        ELSE trigs[j]]

\* The writes of rank() on instance i: self.slug, self.chosen, and the
\* value handed back to the caller.
Stage(trigs, i, out) ==
    [trigs EXCEPT ![i] = [@ EXCEPT !.slug = out.slug, !.chosen = out.chosen,
                                   !.score = out.ret, !.ranked = TRUE]]

(***************************************************************************)
(* Facebook platform: stacks, patterns, accept, send, _send_text.          *)
(***************************************************************************)
\* Facebook limits messages to 320 chars.
FB_TEXT_LIMIT == 320

\* A layer of an outgoing stack.  The rendered text of a text layer is kept
\* as the lengths of its words, single blanks between them; <<>> is the
\* empty (or all-blank) text.
Layer(tag, text) == [tag |-> tag, text |-> text, slug |-> None]

StackLayerKinds ==
    { Layer("Text", <<>>), Layer("Text", <<200, 200>>),
      Layer("RawText", <<321, 5>>),
      Layer("QuickRepliesList", <<>>), Layer("Postback", <<>>) }

StackLayerLists == UNION {[1..n -> StackLayerKinds] : n \in 0..MaxLayers}

\* Stack(layers): a new stack has no annotation.
NewStack(layers) == [layers |-> layers, annotation |-> None]

\* Facebook.PATTERNS, compiled: '(Text|RawText)+ QuickRepliesList?'.
Atom(tags, q) == [tags |-> tags, q |-> q]

PATTERNS ==
    << [name |-> "text",
        atoms |-> << Atom({"Text", "RawText"}, "+"),
                     Atom({"QuickRepliesList"}, "?") >>] >>

PatternNames == {PATTERNS[i].name : i \in DOMAIN PATTERNS}

\* match(pattern, tokens) of section 4.3: the pattern consumes the whole
\* sequence, every atom within its quantifier, backtracking allowed.
RECURSIVE Match(_, _)
Match(atoms, toks) ==
    IF atoms = <<>> THEN toks = <<>>
    ELSE LET a == Head(atoms)
             hit == toks # <<>> /\ Head(toks).tag \in a.tags
         IN  CASE a.q = "1" -> hit /\ Match(Tail(atoms), Tail(toks))
               [] a.q = "?" -> \/ Match(Tail(atoms), toks)
                               \/ hit /\ Match(Tail(atoms), Tail(toks))
               [] a.q = "+" -> hit /\ (\/ Match(Tail(atoms), Tail(toks))
                                       \/ Match(atoms, Tail(toks)))

\* stack.match_exp(pattern)
match_exp(st, pattern) == Match(pattern.atoms, st.layers)

\* The loop of Facebook.accept: index of the first pattern, from i on, that
\* the stack matches; 0 when none does.
RECURSIVE AcceptFrom(_, _)
AcceptFrom(st, i) ==
    IF i > Len(PATTERNS) THEN 0
    ELSE IF match_exp(st, PATTERNS[i]) THEN i
    ELSE AcceptFrom(st, i + 1)

\* Mutant of accept: the name is stored before the pattern is tried.
acceptAnnotateFirst(st) ==
    LET i == AcceptFrom(st, 1)
    IN  [ret |-> i # 0,
         stack |-> [st EXCEPT !.annotation =
                        IF i # 0 THEN PATTERNS[i].name
                        ELSE PATTERNS[Len(PATTERNS)].name]]

\* Facebook.accept: what it returns and the stack afterwards.
accept(st) ==
    LET i == AcceptFrom(st, 1)
    IN  IF i # 0
        THEN [ret |-> TRUE, stack |-> [st EXCEPT !.annotation = PATTERNS[i].name]]
        ELSE [ret |-> FALSE, stack |-> st]

\* textwrap.wrap(text, width), on the chunks of a text: words and the
\* blanks between them.
Chunks(words) ==
    [i \in 1..(IF words = <<>> THEN 0 ELSE 2 * Len(words) - 1) |->
        IF i % 2 = 1 THEN [sp |-> FALSE, len |-> words[(i + 1) \div 2]]
        ELSE [sp |-> TRUE, len |-> 1]]

\* Chunks are added to the current line while they fit.
RECURSIVE Fill(_, _, _, _, _)
Fill(ch, width, len, trail, cnt) ==
    IF ch # <<>> /\ len + Head(ch).len <= width
    THEN Fill(Tail(ch), width, len + Head(ch).len,
              IF Head(ch).sp THEN Head(ch).len ELSE 0, cnt + 1)
    ELSE [rest |-> ch, len |-> len, trail |-> trail, cnt |-> cnt]

\* One line: a leading blank is dropped (not on the first line), the line is
\* filled, a word longer than the width is broken to fill what is left of
\* the line, a trailing blank is dropped.
RECURSIVE WrapLines(_, _, _)
WrapLines(ch, width, lines) ==
    IF ch = <<>> THEN lines
    ELSE LET c0 == IF Head(ch).sp /\ lines # <<>> THEN Tail(ch) ELSE ch
             f == Fill(c0, width, 0, 0, 0)
             long == f.rest # <<>> /\ Head(f.rest).len > width
             left == width - f.len
             g == IF long
                  THEN [rest |-> <<[sp |-> Head(f.rest).sp,
                                    len |-> Head(f.rest).len - left]>>
                                     \o Tail(f.rest),
                        len |-> f.len + left, trail |-> 0, cnt |-> f.cnt + 1,
                        blank |-> left = 0]
                  ELSE [rest |-> f.rest, len |-> f.len, trail |-> f.trail,
                        cnt |-> f.cnt, blank |-> f.trail > 0]
             n == IF g.cnt > 0 /\ g.blank THEN g.cnt - 1 ELSE g.cnt
             l == IF g.cnt > 0 /\ g.blank THEN g.len - g.trail ELSE g.len
         IN  WrapLines(g.rest, width, IF n > 0 THEN Append(lines, l) ELSE lines)

\* The lengths of the lines of wrap(text, width).
wrap(words, width) == WrapLines(Chunks(words), width, <<>>)

\* The first loop of _send_text: the parts of the text layers from layer i
\* on, each part named by its layer, its rank in the layer and its length.
RECURSIVE PartsFrom(_, _)
PartsFrom(layers, i) ==
    IF i > Len(layers) THEN <<>>
    ELSE (IF layers[i].tag \in {"Text", "RawText"}
          THEN LET w == wrap(layers[i].text, FB_TEXT_LIMIT)
               IN  [k \in DOMAIN w |-> [layer |-> i, k |-> k, len |-> w[k]]]
          ELSE <<>>) \o PartsFrom(layers, i + 1)

\* stack.get_layer(QuickRepliesList) does not raise KeyError.
HasQuickReplies(st) ==
    \E i \in DOMAIN st.layers : st.layers[i].tag = "QuickRepliesList"

\* The content handed to Facebook._send.
Message(part, qr) == [text |-> part, quick_replies |-> qr]

Call(op, ret) == [op |-> op, ret |-> ret]

\* Platform.__init__, with the class attribute fsm_creates_task = True.
NotifyIdle ==
    /\ listeners = <<>>
    /\ fsm_creates_task = TRUE
    /\ register = None
    /\ npc = "idle"
    /\ nidx = 0
    /\ calls = <<>>

\* No request is being ranked.
TrigIdle ==
    /\ request = [layers |-> <<>>, trans_reg |-> [present |-> FALSE, choices |-> <<>>]]
    /\ triggers = <<>>
    /\ dpc = "ranking"
    /\ winner = 0
    /\ patched = <<>>

\* A platform that was handed nothing yet.
FbIdle ==
    /\ stack = NewStack(<<>>)
    /\ fpc = "idle"
    /\ result = Call("none", "none")
    /\ handler = None
    /\ parts = <<>>
    /\ pidx = 0
    /\ posting = <<>>
    /\ sent = <<>>

\* No call is running on the platform.
Quiet == fpc \in {"idle", "done", "raised"}

InitFacebook ==
    /\ TrigIdle
    /\ stack \in {NewStack(ls) : ls \in StackLayerLists}
    /\ fpc = "idle"
    /\ result = Call("none", "none")
    /\ handler = None
    /\ parts = <<>>
    /\ pidx = 0
    /\ posting = <<>>
    /\ sent = <<>>
    /\ NotifyIdle

\* The layers of a stack are replaced (stack.layers = ...); the annotation
\* a previous accept left on it stays.
SetLayers(ls) ==
    /\ Quiet
    /\ ls # stack.layers
    /\ stack' = [stack EXCEPT !.layers = ls]
    /\ fpc' = "idle"
    /\ result' = Call("none", "none")
    /\ handler' = None
    /\ parts' = <<>>
    /\ pidx' = 0
    /\ sent' = <<>>
    /\ UNCHANGED <<trigVars, notifyVars, posting>>

\* A call of Facebook.accept(stack).
AcceptCall ==
    /\ Quiet
    /\ LET a == accept(stack)
       IN  /\ stack' = a.stack
           /\ result' = Call("accept", IF a.ret THEN "True" ELSE "False")
    /\ fpc' = "idle"
    /\ handler' = None
    /\ parts' = <<>>
    /\ pidx' = 0
    /\ sent' = <<>>
    /\ UNCHANGED <<trigVars, notifyVars, posting>>

\* Facebook.send: what the stack is afterwards, and the handler it is
\* handed to (None when UnacceptableStack is raised).
send(st) ==
    IF st.annotation \notin PatternNames
    THEN LET a == accept(st)
         IN  IF ~a.ret THEN [stack |-> a.stack, handler |-> None]
             ELSE [stack |-> a.stack, handler |-> a.stack.annotation]
    ELSE [stack |-> st, handler |-> st.annotation]

\* A call of Facebook.send(request, stack).
SendCall ==
    /\ Quiet
    /\ LET r == send(stack)
       IN  /\ stack' = r.stack
           /\ handler' = r.handler
           /\ IF r.handler = None
              THEN /\ result' = Call("send", "UnacceptableStack")
                   /\ fpc' = "raised"
              ELSE /\ result' = Call("send", "coroutine")
                   /\ fpc' = "called"
    /\ parts' = <<>>
    /\ pidx' = 0
    /\ sent' = <<>>
    /\ UNCHANGED <<trigVars, notifyVars, posting>>

\* _send_text up to its first await: the parts are computed.
SendTextParts ==
    /\ fpc = "called"
    /\ handler = "text"
    /\ parts' = PartsFrom(stack.layers, 1)
    /\ pidx' = 1
    /\ fpc' = "loop"
    /\ UNCHANGED <<trigVars, notifyVars, stack, result, handler, posting, sent>>

\* for part in parts[:-1]: await self._send(request, {'text': part})
SendTextPost ==
    /\ fpc = "loop"
    /\ pidx < Len(parts)
    /\ posting' = Append(posting, Message(parts[pidx], FALSE))
    /\ fpc' = "awaiting"
    /\ UNCHANGED <<trigVars, notifyVars, stack, result, handler, parts, pidx, sent>>

\* Facebook._send returns: the POST is answered.
PostDone ==
    /\ fpc \in {"awaiting", "awaiting_last"}
    /\ posting # <<>>
    /\ sent' = Append(sent, Head(posting))
    /\ posting' = Tail(posting)
    /\ IF fpc = "awaiting"
       THEN fpc' = "loop" /\ pidx' = pidx + 1
       ELSE fpc' = "done" /\ pidx' = pidx
    /\ UNCHANGED <<trigVars, notifyVars, stack, result, handler, parts>>

\* part = parts[-1]; the quick replies are attached; await self._send(...).
\* parts[-1] raises IndexError when there is no part.
SendTextLast ==
    /\ fpc = "loop"
    /\ pidx >= Len(parts)
    /\ IF parts = <<>>
       THEN /\ fpc' = "raised"
            /\ result' = Call("send", "IndexError")
            /\ UNCHANGED posting
       ELSE /\ posting' = Append(posting,
                            Message(parts[Len(parts)], HasQuickReplies(stack)))
            /\ fpc' = "awaiting_last"
            /\ UNCHANGED result
    /\ UNCHANGED <<trigVars, notifyVars, stack, handler, parts, pidx, sent>>

NextFacebook ==
    \/ \E ls \in StackLayerLists : SetLayers(ls)
    \/ AcceptCall
    \/ SendCall
    \/ SendTextParts
    \/ SendTextPost
    \/ PostDone
    \/ SendTextLast

SpecFacebook == InitFacebook /\ [][NextFacebook]_vars

(***************************************************************************)
(* Platform: on_message and _notify.                                       *)
(***************************************************************************)
Callbacks == {"cb1", "cb2"}

\* What an awaited callback may return.
ReturnValues == {"r1", "r2"}

\* A platform after construction; the work mode is the default or the one
\* a test class sets.
InitNotify ==
    /\ TrigIdle
    /\ FbIdle
    /\ listeners = <<>>
    /\ fsm_creates_task \in BOOLEAN
    /\ register = None
    /\ npc = "idle"
    /\ nidx = 0
    /\ calls = <<>>

\* Platform.on_message
on_message(cb) ==
    /\ npc \in {"idle", "done"}
    /\ Len(listeners) < MaxListeners
    /\ listeners' = Append(listeners, cb)
    /\ npc' = "idle"
    /\ UNCHANGED <<trigVars, fbVars, fsm_creates_task, register, nidx, calls>>

\* _notify is called.
NotifyEnter ==
    /\ npc \in {"idle", "done"}
    /\ npc' = "loop"
    /\ nidx' = 1
    /\ calls' = <<>>
    /\ UNCHANGED <<trigVars, fbVars, listeners, fsm_creates_task, register>>

CallEvent(i, cb) == [ev |-> "call", i |-> i, cb |-> cb, value |-> None]

ReturnEvent(i, cb, v) == [ev |-> "return", i |-> i, cb |-> cb, value |-> v]

\* Mutant of NotifyCall: the callback is awaited whatever the work mode.
NotifyCallAlwaysAwait ==
    /\ npc = "loop"
    /\ nidx <= Len(listeners)
    /\ calls' = Append(calls, CallEvent(nidx, listeners[nidx]))
    /\ npc' = "await"
    /\ UNCHANGED nidx
    /\ UNCHANGED <<trigVars, fbVars, listeners, fsm_creates_task, register>>

\* coro = cb(message, responder, self.fsm_creates_task)
NotifyCall ==
    /\ npc = "loop"
    /\ nidx <= Len(listeners)
    /\ calls' = Append(calls, CallEvent(nidx, listeners[nidx]))
    /\ IF ~fsm_creates_task
       THEN npc' = "await" /\ UNCHANGED nidx
       ELSE npc' = "loop" /\ nidx' = nidx + 1
    /\ UNCHANGED <<trigVars, fbVars, listeners, fsm_creates_task, register>>

\* self._register = await coro
NotifyAwaited(v) ==
    /\ npc = "await"
    /\ calls' = Append(calls, ReturnEvent(nidx, listeners[nidx], v))
    /\ register' = v
    /\ nidx' = nidx + 1
    /\ npc' = "loop"
    /\ UNCHANGED <<trigVars, fbVars, listeners, fsm_creates_task>>

\* The loop is over: _notify returns.
NotifyReturn ==
    /\ npc = "loop"
    /\ nidx > Len(listeners)
    /\ npc' = "done"
    /\ UNCHANGED <<trigVars, fbVars, listeners, fsm_creates_task, register,
                   nidx, calls>>

NextNotify ==
    \/ \E cb \in Callbacks : on_message(cb)
    \/ NotifyEnter
    \/ NotifyCall
    \/ \E v \in ReturnValues : NotifyAwaited(v)
    \/ NotifyReturn

SpecNotify == InitNotify /\ [][NextNotify]_vars

(***************************************************************************)
(* The ranking cycle (section 4.5 of the specification; the dispatcher is  *)
(* not among the sources).  Every instance is ranked, in any order; then   *)
(* the winner is selected; then patch() runs on the winner.                *)
(***************************************************************************)
\* Left-to-right scan keeping the first maximum; 0 when nobody has a score.
RECURSIVE SelectFrom(_, _, _)
SelectFrom(trigs, i, w) ==
    IF i > Len(trigs) THEN w
    ELSE SelectFrom(trigs, i + 1,
            IF trigs[i].score = NoOpinion THEN w
            ELSE IF w = 0 THEN i
            ELSE IF Gt(trigs[i].score[1], trigs[w].score[1]) THEN i ELSE w)

Select(trigs) == SelectFrom(trigs, 1, 0)

RegistrySeqs == UNION {[1..n -> Factories] : n \in 0..MaxTriggers}

InitTriggers ==
    /\ request \in Requests
    /\ \E reg \in RegistrySeqs : triggers = [i \in DOMAIN reg |-> Build(reg[i])]
    /\ dpc = "ranking"
    /\ winner = 0
    /\ patched = [i \in DOMAIN triggers |-> 0]
    /\ FbIdle
    /\ NotifyIdle

RankStep(i) ==
    /\ dpc = "ranking"
    /\ ~triggers[i].ranked
    /\ triggers' = Stage(triggers, i, rank(triggers[i], request))
    /\ UNCHANGED <<fbVars, notifyVars, request, dpc, winner, patched>>

SelectStep ==
    /\ dpc = "ranking"
    /\ \A i \in DOMAIN triggers : triggers[i].ranked
    /\ winner' = Select(triggers)
    /\ dpc' = IF winner' = 0 THEN "no_trigger_matched" ELSE "selected"
    /\ UNCHANGED <<fbVars, notifyVars, request, triggers, patched>>

\* BaseTrigger.patch: the inherited patch() does nothing to the request.
PatchRequest(t, req) == req

\* Mutant of PatchStep: patch() runs on every trigger that has a score.
PatchEveryScored ==
    /\ dpc = "selected"
    /\ request' = PatchRequest(triggers[winner], request)
    /\ patched' = [i \in DOMAIN patched |->
                      IF triggers[i].score # NoOpinion THEN patched[i] + 1
                      ELSE patched[i]]
    /\ dpc' = "done"
    /\ UNCHANGED <<fbVars, notifyVars, triggers, winner>>

PatchStep ==
    /\ dpc = "selected"
    /\ request' = PatchRequest(triggers[winner], request)
    /\ patched' = [patched EXCEPT ![winner] = @ + 1]
    /\ dpc' = "done"
    /\ UNCHANGED <<fbVars, notifyVars, triggers, winner>>

NextTriggers ==
    \/ \E i \in DOMAIN triggers : RankStep(i)
    \/ SelectStep
    \/ PatchStep

SpecTriggers == InitTriggers /\ [][NextTriggers]_vars

(***************************************************************************)
(* Claims about the trigger variants and the ranking cycle.                *)
(***************************************************************************)
ReqChoices == request.trans_reg.choices

ChoicesPending == request.trans_reg.present /\ ReqChoices # <<>>

HasTag(tag) == \E k \in DOMAIN request.layers : request.layers[k].tag = tag

\* The request carries a quick-reply token whose slug is a key of the mapping.
KnownQr ==
    \E k \in DOMAIN request.layers :
        /\ request.layers[k].tag = "QuickReply"
        /\ \E c \in DOMAIN ReqChoices : ReqChoices[c][1] = request.layers[k].slug

QrSlug ==
    request.layers[CHOOSE k \in DOMAIN request.layers :
                        request.layers[k].tag = "QuickReply"].slug

TheText ==
    request.layers[CHOOSE k \in DOMAIN request.layers :
                        request.layers[k].tag = "RawText"].text

RankedChoice(i) == triggers[i].kind = "Choice" /\ triggers[i].ranked

\* C1: for a request with a non-empty pending-choices mapping and a
\* quick-reply token whose slug is a key of it, Choice.rank returns 1.0 when
\* `when` is unset or equals the slug and NoOpinion otherwise, whether or not
\* a raw-text token is present.
C1_QuickReplyRule ==
    \A i \in DOMAIN triggers :
        (RankedChoice(i) /\ ChoicesPending /\ KnownQr) =>
            triggers[i].score =
                IF triggers[i].when = None \/ triggers[i].when = QrSlug
                THEN <<One>> ELSE NoOpinion

\* A restricted Choice ranked 1.0 on a quick reply that came with a raw text
\* matching another choice.
C1_Witness ==
    \E i \in DOMAIN triggers :
        /\ RankedChoice(i) /\ ChoicesPending /\ KnownQr
        /\ HasTag("RawText") /\ TheText = sYess
        /\ QrSlug = "no" /\ triggers[i].when = "no"
        /\ triggers[i].score = <<One>>

\* The text rule, stated on the scores of the choices: the highest score,
\* and the slug of the first choice that reaches it (none when it is 0).
ScoreOf(c) == best_match(TheText, Strings(ReqChoices[c][2]))

FirstBest ==
    CHOOSE c \in DOMAIN ReqChoices :
        /\ \A j \in DOMAIN ReqChoices : ~Gt(ScoreOf(j), ScoreOf(c))
        /\ \A j \in 1..(c - 1) : Gt(ScoreOf(c), ScoreOf(j))

WinningSlug == IF ScoreOf(FirstBest) = Zero THEN None ELSE ReqChoices[FirstBest][1]

TextRuleResult(when) ==
    IF when = None \/ when = WinningSlug THEN <<ScoreOf(FirstBest)>> ELSE NoOpinion

\* C2 (as claimed): with a non-empty mapping, a raw-text token and no
\* quick-reply token of a known slug (a quick-reply token of an unknown slug
\* included), Choice.rank returns the highest text score if `when` is unset
\* or equals the winning slug, NoOpinion otherwise.
C2_TextRule_Claimed ==
    \A i \in DOMAIN triggers :
        (RankedChoice(i) /\ ChoicesPending /\ HasTag("RawText") /\ ~KnownQr) =>
            triggers[i].score = TextRuleResult(triggers[i].when)

\* C2 (amended): the text rule applies when the request carries no
\* quick-reply token at all; a quick-reply token of an unknown slug yields
\* NoOpinion whatever the raw text.
C2_TextRule ==
    \A i \in DOMAIN triggers :
        /\ (RankedChoice(i) /\ ChoicesPending /\ HasTag("RawText")
                /\ ~HasTag("QuickReply")) =>
              /\ triggers[i].score = TextRuleResult(triggers[i].when)
              /\ triggers[i].slug = WinningSlug
        /\ (RankedChoice(i) /\ ChoicesPending /\ HasTag("QuickReply")
                /\ ~KnownQr) =>
              triggers[i].score = NoOpinion

\* "yess" against yes/yep/no: two choices tie at the top, the first one wins
\* and a Choice restricted to it returns the score.
C2_Witness ==
    \E i \in DOMAIN triggers :
        /\ RankedChoice(i) /\ ChoicesPending /\ ~HasTag("QuickReply")
        /\ HasTag("RawText") /\ TheText = sYess
        /\ Len(ReqChoices) = 3
        /\ triggers[i].when = "yes"
        /\ triggers[i].slug = "yes"
        /\ triggers[i].score # NoOpinion
        /\ Gt(triggers[i].score[1], Zero)

\* C3: with no 'choices' entry or an empty mapping, Choice.rank returns
\* NoOpinion, never a number, whatever the tokens and `when`.
C3_NoChoicesNoOpinion ==
    \A i \in DOMAIN triggers :
        (RankedChoice(i) /\ ~ChoicesPending) => triggers[i].score = NoOpinion

\* An unrestricted Choice ranked on a raw text with an empty mapping.
C3_Witness ==
    \E i \in DOMAIN triggers :
        /\ RankedChoice(i)
        /\ request.trans_reg.present /\ ReqChoices = <<>>
        /\ HasTag("RawText") /\ ~HasTag("QuickReply")
        /\ triggers[i].when = None
        /\ triggers[i].score = NoOpinion

\* C4: a rank() call leaves the request (register and tokens) unchanged and
\* writes to the ranked instance only: every other instance keeps its slug,
\* its chosen and everything else.
C4_RankFrame ==
    [][(dpc = "ranking" /\ dpc' = "ranking") =>
          /\ request' = request
          /\ DOMAIN triggers' = DOMAIN triggers
          /\ \A i \in DOMAIN triggers :
                (triggers'[i].ranked = triggers[i].ranked) =>
                    triggers'[i] = triggers[i]]_vars

\* Two Choice instances on one request: one has staged a slug, the other,
\* not ranked yet, still has none.
C4_Witness ==
    \E i, j \in DOMAIN triggers :
        /\ i # j
        /\ RankedChoice(i) /\ triggers[i].slug # None /\ triggers[i].chosen # <<>>
        /\ triggers[j].kind = "Choice" /\ ~triggers[j].ranked
        /\ triggers[j].slug = None /\ triggers[j].chosen = <<>>

Scored(i) == triggers[i].score # NoOpinion

IsMax(i) ==
    /\ Scored(i)
    /\ \A j \in DOMAIN triggers :
          Scored(j) => ~Gt(triggers[j].score[1], triggers[i].score[1])

Swap(trigs, i, j) == [trigs EXCEPT ![i] = trigs[j], ![j] = trigs[i]]

Selected == dpc \in {"selected", "done"}

\* C5: among the triggers that return the maximum score the winner is the
\* one registered first; an Anything trigger (1.0) is never beaten by a
\* trigger registered after it; with the registration order of two tied
\* triggers swapped, the other one wins.
C5_TieBreak ==
    Selected =>
        /\ winner \in DOMAIN triggers
        /\ IsMax(winner)
        /\ \A j \in 1..(winner - 1) : ~IsMax(j)
        /\ \A i \in DOMAIN triggers :
              triggers[i].kind = "Anything" => winner <= i
        /\ \A j \in DOMAIN triggers :
              (j # winner /\ IsMax(j)) =>
                  LET sw == Swap(triggers, winner, j)
                  IN  sw[Select(sw)] = triggers[j]

\* Anything first and a Choice that also returned 1.0 second: Anything wins.
C5_Witness ==
    /\ Selected
    /\ Len(triggers) >= 2
    /\ triggers[1].kind = "Anything" /\ triggers[2].kind = "Choice"
    /\ triggers[2].score = <<One>>
    /\ winner = 1

AllRanked == \A i \in DOMAIN triggers : triggers[i].ranked

\* C6: patch() runs exactly once per cycle, on the winner only and after
\* every rank() has completed; when no trigger has a score it runs on none.
C6_PatchOnce ==
    /\ \A i \in DOMAIN triggers :
          /\ patched[i] <= 1
          /\ patched[i] = 1 => (AllRanked /\ i = winner /\ dpc = "done")
    /\ dpc = "done" => (winner \in DOMAIN triggers /\ patched[winner] = 1
                          /\ IsMax(winner))
    /\ dpc = "no_trigger_matched" =>
          \A i \in DOMAIN triggers : patched[i] = 0 /\ ~Scored(i)

\* A finished cycle of two scored triggers: the winner patched, the other not.
C6_Witness ==
    /\ dpc = "done"
    /\ Len(triggers) = 2
    /\ Scored(1) /\ Scored(2)
    /\ winner = 2
    /\ patched = <<0, 1>>

(***************************************************************************)
(* Claims about the Facebook platform.                                     *)
(***************************************************************************)
Matching(layers) ==
    {i \in DOMAIN PATTERNS : Match(PATTERNS[i].atoms, layers)}

FirstOf(S) == CHOOSE i \in S : \A j \in S : i <= j

\* C7: accept(stack) returns True exactly when some registered pattern
\* matches the stack, and then the annotation is the name of the first
\* registered pattern that matches; when none matches it returns False and
\* the annotation is left as it was.
C7_Accept ==
    [][result'.op = "accept" =>
          LET m == Matching(stack.layers)
          IN  /\ stack'.layers = stack.layers
              /\ (result'.ret = "True") <=> (m # {})
              /\ result'.ret \in {"True", "False"}
              /\ m # {} => stack'.annotation = PATTERNS[FirstOf(m)].name
              /\ m = {} => stack'.annotation = stack.annotation]_vars

\* accept returned True on two text layers followed by quick replies.
C7_Witness ==
    /\ result = Call("accept", "True")
    /\ stack.annotation = "text"
    /\ Len(stack.layers) = 3
    /\ stack.layers[1].tag = "RawText"
    /\ stack.layers[2].tag = "Text"
    /\ stack.layers[3].tag = "QuickRepliesList"

\* C8: whatever annotation the stack had, a stack that matches no
\* registered pattern is never handed to a _send_<name> handler (send raises
\* UnacceptableStack), and a stack handed to a handler matches the pattern
\* the handler is named after.
C8_SendDispatch ==
    /\ handler # None =>
          \E i \in Matching(stack.layers) : PATTERNS[i].name = handler
    /\ (result.op = "send" /\ Matching(stack.layers) = {}) =>
          (handler = None /\ result.ret = "UnacceptableStack")

TextPattern == PATTERNS[CHOOSE i \in DOMAIN PATTERNS : PATTERNS[i].name = "text"]

IsTextLayer(l) == l.tag \in {"Text", "RawText"}

\* The parts come in layer order and, within a layer, in part order.
InOrder(msgs) ==
    \A a, b \in DOMAIN msgs :
        a < b => \/ msgs[a].text.layer < msgs[b].text.layer
                 \/ /\ msgs[a].text.layer = msgs[b].text.layer
                    /\ msgs[a].text.k < msgs[b].text.k

\* C10: for a stack accepted under the 'text' pattern, _send_text sends at
\* least one message; every text layer's text goes out as its parts of at
\* most 320 characters, one message per part, in layer and part order, one
\* send at a time; the quick replies ride on the last message only.
C10_SendText ==
    /\ Len(posting) <= 1
    /\ \A k \in DOMAIN sent : sent[k].text.len <= FB_TEXT_LIMIT
    /\ InOrder(sent)
    /\ (handler = "text" /\ match_exp(stack, TextPattern)
            /\ fpc \in {"done", "raised"}) =>
          /\ fpc = "done"
          /\ Len(sent) >= 1
          /\ \A i \in DOMAIN stack.layers :
                IsTextLayer(stack.layers[i]) =>
                    LET w == wrap(stack.layers[i].text, FB_TEXT_LIMIT)
                    IN  \A k \in DOMAIN w :
                            \E m \in DOMAIN sent :
                                sent[m].text = [layer |-> i, k |-> k, len |-> w[k]]
          /\ \A m \in DOMAIN sent :
                sent[m].quick_replies <=>
                    (m = Len(sent) /\ HasQuickReplies(stack))

(***************************************************************************)
(* Claims about Platform._notify.                                          *)
(***************************************************************************)
CallsOnly == SelectSeq(calls, LAMBDA e : e.ev = "call")

ReturnsOnly == SelectSeq(calls, LAMBDA e : e.ev = "return")

\* C9: _notify calls every registered callback exactly once, in registration
\* order.  With fsm_creates_task False each callback is awaited before the
\* next one is called and _register ends as the return value of the last
\* registered callback; with fsm_creates_task True nothing is awaited and
\* _register is left unchanged; with no callback _register is left unchanged.
C9_Notify ==
    /\ [](/\ \A k \in DOMAIN CallsOnly :
                CallsOnly[k].i = k /\ CallsOnly[k].cb = listeners[k]
          /\ npc = "done" => Len(CallsOnly) = Len(listeners)
          /\ ~fsm_creates_task =>
                /\ \A k \in DOMAIN calls :
                      calls[k].ev = (IF k % 2 = 1 THEN "call" ELSE "return")
                /\ \A k \in DOMAIN calls :
                      calls[k].ev = "return" => calls[k].i = calls[k - 1].i
                /\ (npc = "done" /\ listeners # <<>>) =>
                      /\ Len(calls) = 2 * Len(listeners)
                      /\ calls[Len(calls)].i = Len(listeners)
                      /\ register = calls[Len(calls)].value
          /\ fsm_creates_task => ReturnsOnly = <<>>)
    /\ [][(fsm_creates_task \/ listeners = <<>>) => register' = register]_vars

\* Two callbacks awaited in turn; the first returned r1, the last r2, and
\* _register holds r2.
C9_Witness ==
    /\ npc = "done"
    /\ ~fsm_creates_task
    /\ Len(listeners) = 2
    /\ Len(calls) = 4
    /\ calls[2].value = "r1"
    /\ calls[4].value = "r2"
    /\ register = "r2"

====
